---- MODULE Spec2Model ----
(***************************************************************************)
(* Session / connection lifecycle of the Shogi-Game backend                *)
(* (src/app/main.py): registration, login, bearer-token verification and   *)
(* the private-room create / connect handlers.                             *)
(*                                                                         *)
(* Every handler is a coroutine: it can be interleaved with other requests *)
(* at each `await`.  Each action below is one database operation of a      *)
(* handler together with the local code that runs up to the next await.    *)
(*                                                                         *)
(* Optional values (Python None / a value) are sequences of length 0 / 1.  *)
(***************************************************************************)
EXTENDS Naturals, Sequences, FiniteSets, Bags

VARIABLES
    users,          \* table User: id (= index) -> row
    rooms,          \* table Room: set of ids
    privateRooms,   \* table PrivateRoom: set of rows (room, connection_key)
    req,            \* create/connect requests in the server: bag of their locals
    resp,           \* last response of register / login / whoami / userInfo
    issued,         \* tokens handed out by login, with the login they answered
    regOK,          \* username -> number of register calls answered 201
    regFail         \* username -> number of register calls answered 400

vars == <<users, rooms, privateRooms, req, resp, issued, regOK, regFail>>

store == <<users, rooms, privateRooms>>

(***************************************************************************)
(* Bounds and input domains                                                *)
(***************************************************************************)
MaxReq == 2         \* create/connect requests in the server at the same time
MaxRooms == 2       \* Room.create is not called once this many rooms exist
MaxRegister == 2    \* register calls per username
MaxSeq == 1         \* requests in the server at the same time, one-at-a-time runs

Usernames == {"alice", "bob", "carol"}
Passwords == {"p1", "p2"}

None == <<>>
Some(x) == <<x>>

(***************************************************************************)
(* Strings are sequences of characters; str(int) renders decimal digits.   *)
(***************************************************************************)
Digit(d) == <<"0", "1", "2", "3", "4", "5", "6", "7", "8", "9">>[d + 1]

RECURSIVE Str(_)
Str(n) == IF n < 10 THEN <<Digit(n)>> ELSE Str(n \div 10) \o <<Digit(n % 10)>>

\* keys a client may send: the keys of the first two rooms (valid once the
\* room's PrivateRoom row is stored) and a string no room ever has ("01"
\* differs from "1" under exact match)
ConnectKeys == {Str(1), Str(2), <<"0", "1">>}

(***************************************************************************)
(* Password hashing (passlib bcrypt), as digest / verify                   *)
(***************************************************************************)
Hash(password) == <<"bcrypt", password>>

Verify(password, digest) == digest = Hash(password)

(***************************************************************************)
(* Tokens: jwt.encode / jwt.decode with the process-wide secret.           *)
(* A token is <<header, payload, signature>>; the signature is an ideal    *)
(* MAC over header and payload under the key.                              *)
(***************************************************************************)
JWT_SECRET == "JWT_SECRET"

Header == [alg |-> "HS256", typ |-> "JWT"]

Sign(header, payload, key) == <<"hmac", header, payload, key>>

Encode(payload, key) == <<Header, payload, Sign(Header, payload, key)>>

\* exception raised by jwt.decode, or the payload
Decode(token, key) ==
    IF Len(token) # 3
    THEN [exc |-> "DecodeError", payload |-> None]
    ELSE IF token[3] # Sign(token[1], token[2], key)
    THEN [exc |-> "InvalidSignatureError", payload |-> None]   \* a DecodeError
    ELSE [exc |-> "none", payload |-> Some(token[2])]

\* what a client can do to a token it holds
Tamper(token) == <<token[1], [token[2] EXCEPT !.id = @ + 1], token[3]>>
Truncate(token) == SubSeq(token, 1, 2)

AccountInfo(us, id) == [id |-> id, username |-> us[id].username]

\* a well-signed token whose subject is in no row of the store (issued by
\* the same service for a database that has since been replaced)
ForeignToken(us) == Encode([id |-> Len(us) + 1, username |-> "mallory"], JWT_SECRET)

(***************************************************************************)
(* get_current_user: the dependency that guards whoami, create and connect *)
(***************************************************************************)
\* the exception the try block raises, "none" when it completes
TryBlock(token, us) ==
    LET d == Decode(token, JWT_SECRET)
    IN  IF d.exc # "none" THEN d.exc
        ELSE IF d.payload[1].id \notin DOMAIN us THEN "DoesNotExist"
        ELSE "none"

\* `except DoesNotExist | DecodeError:` -- the expression is a union type, not
\* an exception class or a tuple of them, so matching ANY raised exception
\* against it raises TypeError; the HTTPException(401) below it never runs
\* and the request ends as an unhandled server error.
ExceptClause(exc) ==
    [status |-> 500, detail |-> "Internal Server Error", body |-> None]

\* mutant: looks the user up without the id filter
get_current_user_first(token, us) ==
    LET exc == TryBlock(token, us)
    IN  IF exc # "none" THEN ExceptClause(exc)
        ELSE [status |-> 200, detail |-> "", body |-> Some(AccountInfo(us, 1))]

\* mutant: a token stops verifying once its user is connected to a room
get_current_user_stale(token, us) ==
    LET exc == TryBlock(token, us)
        id == Decode(token, JWT_SECRET).payload[1].id
    IN  IF exc # "none" THEN ExceptClause(exc)
        ELSE IF us[id].connected_room # None THEN ExceptClause("DoesNotExist")
        ELSE [status |-> 200, detail |-> "", body |-> Some(AccountInfo(us, id))]

get_current_user(token, us) ==
    LET exc == TryBlock(token, us)
    IN  IF exc # "none" THEN ExceptClause(exc)
        ELSE [status |-> 200, detail |-> "",
              body |-> Some(AccountInfo(us, Decode(token, JWT_SECRET).payload[1].id))]

\* the tokens a client presents, by how it obtained them
TokenKinds == {"valid", "tampered", "truncated", "unknown"}

PresentedToken(kind, e, us) ==
    CASE kind = "valid"     -> e.token
      [] kind = "tampered"  -> Tamper(e.token)
      [] kind = "truncated" -> Truncate(e.token)
      [] kind = "unknown"   -> ForeignToken(us)

(***************************************************************************)
(* Store operations of the User table                                      *)
(***************************************************************************)
UserByName(us, username) == {i \in DOMAIN us : us[i].username = username}

\* the unique index on User.username (declared with the model): would a new
\* row with this name violate it
UsernameTaken(us, username) == UserByName(us, username) # {}

\* user_obj.save() of a new row; the store checks the index and inserts in
\* one statement, and raises IntegrityError when the index is violated
InsertUser(us, username, digest) ==
    IF UsernameTaken(us, username)
    THEN [exc |-> "IntegrityError", users |-> us]
    ELSE [exc |-> "none",
          users |-> Append(us, [username |-> username, password_hash |-> digest,
                                connected_room |-> None])]

\* app.actions.authenticate_user: the user's id, or None
authenticate_user(username, password, us) ==
    LET ids == UserByName(us, username)
    IN  IF ids = {} THEN None
        ELSE LET i == CHOOSE i \in ids : TRUE
             IN  IF Verify(password, us[i].password_hash) THEN Some(i) ELSE None

\* why a login attempt is what it is (not visible to the handler)
LoginCause(username, password, us) ==
    IF UserByName(us, username) = {} THEN "absent"
    ELSE IF \E i \in UserByName(us, username) : Verify(password, us[i].password_hash)
    THEN "ok" ELSE "mismatch"

NoResp == [op |-> "none", status |-> 0, detail |-> "", body |-> None,
           cause |-> "", sub |-> None]

(***************************************************************************)
(* POST /auth/register                                                     *)
(***************************************************************************)
\* mutant: a taken username updates the stored row and answers 201
register_overwrite(username, password) ==
    /\ regOK[username] + regFail[username] < MaxRegister
    /\ LET r == InsertUser(users, username, Hash(password))
       IN  /\ users' = IF r.exc = "none" THEN r.users
                       ELSE [i \in DOMAIN users |->
                               IF users[i].username = username
                               THEN [users[i] EXCEPT !.password_hash = Hash(password)]
                               ELSE users[i]]
           /\ resp' = [NoResp EXCEPT !.op = "register", !.status = 201]
           /\ regOK' = [regOK EXCEPT ![username] = @ + 1]
           /\ regFail' = regFail
    /\ UNCHANGED <<rooms, privateRooms, req, issued>>

register(username, password) ==
    /\ regOK[username] + regFail[username] < MaxRegister
    /\ LET r == InsertUser(users, username, Hash(password))
       IN  IF r.exc = "IntegrityError"
           THEN /\ resp' = [NoResp EXCEPT !.op = "register", !.status = 400,
                                          !.detail = "Username taken"]
                /\ regFail' = [regFail EXCEPT ![username] = @ + 1]
                /\ UNCHANGED <<users, regOK>>
           ELSE /\ users' = r.users
                /\ resp' = [NoResp EXCEPT !.op = "register", !.status = 201]
                /\ regOK' = [regOK EXCEPT ![username] = @ + 1]
                /\ regFail' = regFail
    /\ UNCHANGED <<rooms, privateRooms, req, issued>>

(***************************************************************************)
(* POST /auth/login                                                        *)
(***************************************************************************)
\* mutant: an unknown username gets its own reason string
login_leaky(username, password) ==
    /\ LET user == authenticate_user(username, password, users)
           cause == LoginCause(username, password, users)
       IN  IF user = None
           THEN /\ resp' = [NoResp EXCEPT !.op = "login", !.status = 400,
                              !.detail = IF cause = "absent" THEN "Unknown username"
                                         ELSE "Incorrect password or username",
                              !.cause = cause]
                /\ issued' = issued
           ELSE LET token == Encode(AccountInfo(users, user[1]), JWT_SECRET)
                IN  /\ resp' = [NoResp EXCEPT !.op = "login", !.status = 200,
                                  !.body = Some([access_token |-> token,
                                                 token_type |-> "bearer"]),
                                  !.cause = cause, !.sub = user]
                    /\ issued' = issued \cup {[token |-> token, uid |-> user[1],
                                              username |-> username]}
    /\ UNCHANGED <<users, rooms, privateRooms, req, regOK, regFail>>

login(username, password) ==
    /\ LET user == authenticate_user(username, password, users)
           cause == LoginCause(username, password, users)
       IN  IF user = None
           THEN /\ resp' = [NoResp EXCEPT !.op = "login", !.status = 400,
                              !.detail = "Incorrect password or username",
                              !.cause = cause]
                /\ issued' = issued
           ELSE LET token == Encode(AccountInfo(users, user[1]), JWT_SECRET)
                IN  /\ resp' = [NoResp EXCEPT !.op = "login", !.status = 200,
                                  !.body = Some([access_token |-> token,
                                                 token_type |-> "bearer"]),
                                  !.cause = cause, !.sub = user]
                    /\ issued' = issued \cup {[token |-> token, uid |-> user[1],
                                              username |-> username]}
    /\ UNCHANGED <<users, rooms, privateRooms, req, regOK, regFail>>

(***************************************************************************)
(* GET /users/me                                                           *)
(***************************************************************************)
read_users_me(kind, e) ==
    /\ LET current_user == get_current_user(PresentedToken(kind, e, users), users)
       IN  resp' = [op |-> "whoami", status |-> current_user.status,
                    detail |-> current_user.detail, body |-> current_user.body,
                    cause |-> kind, sub |-> Some(e.uid)]
    /\ UNCHANGED <<users, rooms, privateRooms, req, issued, regOK, regFail>>

(***************************************************************************)
(* GET /users/info/{username}                                              *)
(***************************************************************************)
\* The route declares status_code=302 for its success, and the handler ends
\* with `return AccountInfo.from_tortoise_orm(user)` without await: what it
\* returns is a coroutine object, which has no id and no username, so the
\* validation of the return value against response_model fails and the
\* request ends as an unhandled server error.
get_user_info(username) ==
    /\ LET ids == UserByName(users, username)
       IN  resp' = IF ids = {}          \* User.get raises DoesNotExist
                   THEN [NoResp EXCEPT !.op = "userinfo", !.status = 404,
                                       !.detail = "User doesn't exist",
                                       !.cause = "absent"]
                   ELSE [NoResp EXCEPT !.op = "userinfo", !.status = 500,
                                       !.detail = "Internal Server Error",
                                       !.cause = "found",
                                       !.sub = Some(CHOOSE i \in ids : TRUE)]
    /\ UNCHANGED <<users, rooms, privateRooms, req, issued, regOK, regFail>>

(***************************************************************************)
(* Store operations of the Room and PrivateRoom tables                     *)
(***************************************************************************)
Max(S) == CHOOSE x \in S : \A y \in S : y <= x

\* mutant: the primary key of the newest Room is handed out again
RoomCreate_reuse(rs) == IF rs = {} THEN 1 ELSE Max(rs)

\* Room.create(): the autoincrement primary key
RoomCreate(rs) == IF rs = {} THEN 1 ELSE Max(rs) + 1

\* mutant: str(room), the row's repr, instead of str(room.id)
ConnectionKey_repr(room) == <<"R">> \o Str(room)

\* str(room.id), the connection key create gives the new private room
ConnectionKey(room) == Str(room)

\* the unique index on PrivateRoom.connection_key: would a new row with
\* this key violate it
KeyTaken(prs, key) == \E p \in prs : p.connection_key = key

\* PrivateRoom.create(room=..., connection_key=...); IntegrityError when the
\* index is violated
PrivateRoomCreate(prs, room, key) ==
    IF KeyTaken(prs, key)
    THEN [exc |-> "IntegrityError", rows |-> prs, row |-> None]
    ELSE LET row == [room |-> room, connection_key |-> key]
         IN  [exc |-> "none", rows |-> prs \cup {row}, row |-> Some(row)]

\* mutant: the lookup lost its filter (PrivateRoom.first())
PrivateRoomGet_first(prs, key) ==
    IF prs = {} THEN [exc |-> "DoesNotExist", row |-> None]
    ELSE [exc |-> "none",
          row |-> Some(CHOOSE p \in prs : \A o \in prs : p.room <= o.room)]

\* PrivateRoom.get(connection_key=...): exact match
PrivateRoomGet(prs, key) ==
    LET m == {p \in prs : p.connection_key = key}
    IN  IF m = {} THEN [exc |-> "DoesNotExist", row |-> None]
        ELSE IF Cardinality(m) > 1 THEN [exc |-> "MultipleObjectsReturned", row |-> None]
        ELSE [exc |-> "none", row |-> Some(CHOOSE p \in m : TRUE)]

\* mutant: the newest Room instead of the one the foreign key names
RoomFirst_last(rs, private_room) == IF rs = {} THEN None ELSE Some(Max(rs))

\* private_room.room.first(): the Room row the foreign key names
RoomFirst(rs, private_room) ==
    IF private_room.room \in rs THEN Some(private_room.room) ELSE None

\* mutant: the handler forgot the check
is_connected_unchecked(user) == FALSE

\* `if user.connected_room:`
is_connected(user) == user.connected_room # None

\* user.save(): writes every column of the handler's copy of the row
UserSave(us, id, row) == [us EXCEPT ![id] = row]

(***************************************************************************)
(* Requests to /room/private/create and /room/private/connect.             *)
(* A request is the record of its handler's locals; locals that the        *)
(* handler no longer reads are reset to None.                              *)
(***************************************************************************)
NewReq ==
    [op |-> "none", pc |-> "new", kind |-> "", key |-> None,
     current_user |-> None, user |-> None, room |-> None, private_room |-> None,
     status |-> 0, detail |-> "", body |-> None,
     wrote |-> FALSE]       \* whether a step of this request changed the store

InFlight == BagToSet(req)

\* request q takes a step and has locals rec after it; notes whether the
\* step changed the store
Locals(q, rec) ==
    req' = (req (-) SetToBag({q}))
               (+) SetToBag({[rec EXCEPT !.wrote = @ \/ (store' # store)]})

Respond(rec, status, detail, body) ==
    [rec EXCEPT !.pc = "done", !.status = status, !.detail = detail, !.body = body,
                !.key = None, !.user = None, !.room = None, !.private_room = None]

\* a request arrives: Depends(get_current_user)
begin_request(op, key, kind, e) ==
    /\ BagCardinality(req) < MaxReq
    /\ UNCHANGED <<users, rooms, privateRooms, resp, issued, regOK, regFail>>
    /\ LET current_user == get_current_user(PresentedToken(kind, e, users), users)
           rec == [NewReq EXCEPT !.op = op, !.kind = kind]
       IN  req' = req (+) SetToBag({
               IF current_user.status # 200
               THEN Respond(rec, current_user.status, current_user.detail, None)
               ELSE [rec EXCEPT !.pc = "authed", !.key = key,
                                !.current_user = current_user.body]})

\* mutant: create allocates its Room before it looks at the user
load_user_room_first(q) ==
    /\ q.pc = "authed"
    /\ rooms' = IF q.op = "create" /\ Cardinality(rooms) < MaxRooms
                THEN rooms \cup {RoomCreate(rooms)} ELSE rooms
    /\ UNCHANGED <<users, privateRooms, resp, issued, regOK, regFail>>
    /\ LET user == users[q.current_user[1].id]
       IN  IF is_connected(user)
           THEN Locals(q, Respond(q, 400, "Already connected", None))
           ELSE Locals(q, [q EXCEPT !.pc = "checked", !.user = Some(user)])

\* user = await User.get(id=current_user.id); if user.connected_room: raise 400
load_user(q) ==
    /\ q.pc = "authed"
    /\ UNCHANGED <<users, rooms, privateRooms, resp, issued, regOK, regFail>>
    /\ LET user == users[q.current_user[1].id]
       IN  IF is_connected(user)
           THEN Locals(q, Respond(q, 400, "Already connected", None))
           ELSE Locals(q, [q EXCEPT !.pc = "checked", !.user = Some(user)])

\* room = await Room.create()
create_private_room_101(q) ==
    /\ q.op = "create" /\ q.pc = "checked"
    /\ Cardinality(rooms) < MaxRooms
    /\ LET id == RoomCreate(rooms)
       IN  /\ rooms' = rooms \cup {id}
           /\ UNCHANGED <<users, privateRooms, resp, issued, regOK, regFail>>
           /\ Locals(q, [q EXCEPT !.pc = "room", !.room = Some(id)])

\* mutant: the PrivateRoom row is built but not stored before the user is saved
create_private_room_102_unsaved(q) ==
    /\ q.op = "create" /\ q.pc = "room"
    /\ UNCHANGED <<users, rooms, privateRooms, resp, issued, regOK, regFail>>
    /\ Locals(q, [q EXCEPT !.pc = "private_room",
                           !.private_room = Some([room |-> q.room[1],
                                                  connection_key |->
                                                      ConnectionKey(q.room[1])])])

\* private_room = await PrivateRoom.create(room=room, connection_key=str(room.id))
create_private_room_102(q) ==
    /\ q.op = "create" /\ q.pc = "room"
    /\ LET ins == PrivateRoomCreate(privateRooms, q.room[1], ConnectionKey(q.room[1]))
       IN  /\ privateRooms' = ins.rows
           /\ UNCHANGED <<users, rooms, resp, issued, regOK, regFail>>
           /\ IF ins.exc # "none"
              THEN Locals(q, Respond(q, 422, ins.exc, None))
              ELSE Locals(q, [q EXCEPT !.pc = "private_room",
                                !.private_room = ins.row])

\* user.connected_room = room; await user.save(); return PrivateRoomInfo(...)
create_private_room_105(q) ==
    /\ q.op = "create" /\ q.pc = "private_room"
    /\ users' = UserSave(users, q.current_user[1].id,
                         [q.user[1] EXCEPT !.connected_room = q.room])
    /\ UNCHANGED <<rooms, privateRooms, resp, issued, regOK, regFail>>
    /\ Locals(q, Respond(q, 200, "",
                 Some([room_id |-> q.room[1],
                       connect_key |-> q.private_room[1].connection_key])))

\* private_room = await PrivateRoom.get(connection_key=...); DoesNotExist: 400
connect_ro_private_room_83(q) ==
    /\ q.op = "connect" /\ q.pc = "checked"
    /\ UNCHANGED <<users, rooms, privateRooms, resp, issued, regOK, regFail>>
    /\ LET got == PrivateRoomGet(privateRooms, q.key[1])
       IN  CASE got.exc = "none" ->
                  Locals(q, [q EXCEPT !.pc = "private_room", !.key = None,
                                      !.private_room = got.row])
             [] got.exc = "DoesNotExist" ->
                  Locals(q, Respond(q, 400, "Invalid connect key", None))
             [] OTHER ->
                  Locals(q, Respond(q, 500, "Internal Server Error", None))

\* room = await private_room.room.first()
connect_ro_private_room_87(q) ==
    /\ q.op = "connect" /\ q.pc = "private_room"
    /\ UNCHANGED <<users, rooms, privateRooms, resp, issued, regOK, regFail>>
    /\ Locals(q, [q EXCEPT !.pc = "room",
                           !.room = RoomFirst(rooms, q.private_room[1])])

\* the users whose connected room is this Room
Occupants(us, room) == {u \in DOMAIN us : us[u].connected_room = Some(room)}

\* mutant: a Room takes two users; a further connect is refused
connect_ro_private_room_89_capped(q) ==
    /\ q.op = "connect" /\ q.pc = "room"
    /\ users' = IF q.room # None /\ Cardinality(Occupants(users, q.room[1])) >= 2
                THEN users
                ELSE UserSave(users, q.current_user[1].id,
                              [q.user[1] EXCEPT !.connected_room = q.room])
    /\ UNCHANGED <<rooms, privateRooms, resp, issued, regOK, regFail>>
    /\ IF q.room = None \/ Cardinality(Occupants(users, q.room[1])) >= 2
       THEN Locals(q, Respond(q, 400, "Room is full", None))
       ELSE Locals(q, Respond(q, 200, "",
                      Some([room_id |-> q.room[1],
                            connect_key |-> q.private_room[1].connection_key])))

\* user.connected_room = room; await user.save(); return PrivateRoomInfo(...)
connect_ro_private_room_89(q) ==
    /\ q.op = "connect" /\ q.pc = "room"
    /\ users' = UserSave(users, q.current_user[1].id,
                         [q.user[1] EXCEPT !.connected_room = q.room])
    /\ UNCHANGED <<rooms, privateRooms, resp, issued, regOK, regFail>>
    /\ IF q.room = None      \* room.id of None: AttributeError after the save
       THEN Locals(q, Respond(q, 500, "Internal Server Error", None))
       ELSE Locals(q, Respond(q, 200, "",
                      Some([room_id |-> q.room[1],
                            connect_key |-> q.private_room[1].connection_key])))

\* the response leaves the server
deliver(q) ==
    /\ q.pc = "done"
    /\ req' = req (-) SetToBag({q})
    /\ UNCHANGED <<users, rooms, privateRooms, resp, issued, regOK, regFail>>

(***************************************************************************)
(* The service from an empty database: register, login, whoami, userInfo   *)
(***************************************************************************)
Init ==
    /\ users = <<>>
    /\ rooms = {}
    /\ privateRooms = {}
    /\ req = EmptyBag
    /\ resp = NoResp
    /\ issued = {}
    /\ regOK = [n \in Usernames |-> 0]
    /\ regFail = [n \in Usernames |-> 0]

Next ==
    \/ \E n \in Usernames, p \in Passwords : register(n, p)
    \/ \E n \in Usernames, p \in Passwords : login(n, p)
    \/ \E k \in TokenKinds, e \in issued : read_users_me(k, e)
    \/ \E n \in Usernames : get_user_info(n)

Spec == Init /\ [][Next]_vars

(***************************************************************************)
(* The service once alice and bob have registered and logged in:           *)
(* concurrent create / connect requests                                    *)
(***************************************************************************)
RegisteredUsers ==
    InsertUser(InsertUser(<<>>, "alice", Hash("p1")).users, "bob", Hash("p2")).users

LoggedIn(us) ==
    {[token |-> Encode(AccountInfo(us, i), JWT_SECRET), uid |-> i,
      username |-> us[i].username] : i \in DOMAIN us}

InitRoom ==
    /\ users = RegisteredUsers
    /\ rooms = {}
    /\ privateRooms = {}
    /\ req = EmptyBag
    /\ resp = [NoResp EXCEPT !.op = "login", !.status = 200,
                  !.body = Some([access_token |->
                                     Encode(AccountInfo(RegisteredUsers, 2), JWT_SECRET),
                                 token_type |-> "bearer"]),
                  !.cause = "ok", !.sub = Some(2)]     \* bob logged in last
    /\ issued = LoggedIn(RegisteredUsers)
    /\ regOK = [n \in Usernames |-> IF n \in {"alice", "bob"} THEN 1 ELSE 0]
    /\ regFail = [n \in Usernames |-> 0]

NextRoom ==
    \/ \E k \in TokenKinds, e \in issued : begin_request("create", None, k, e)
    \/ \E k \in TokenKinds, e \in issued, key \in ConnectKeys :
          begin_request("connect", Some(key), k, e)
    \/ \E q \in InFlight : load_user(q)
    \/ \E q \in InFlight : create_private_room_101(q)
    \/ \E q \in InFlight : create_private_room_102(q)
    \/ \E q \in InFlight : create_private_room_105(q)
    \/ \E q \in InFlight : connect_ro_private_room_83(q)
    \/ \E q \in InFlight : connect_ro_private_room_87(q)
    \/ \E q \in InFlight : connect_ro_private_room_89(q)
    \/ \E q \in InFlight : deliver(q)

SpecRoom == InitRoom /\ [][NextRoom]_vars

(***************************************************************************)
(* The service once alice, bob and carol have registered and logged in,    *)
(* with at most MaxSeq create / connect requests in the server at a time   *)
(***************************************************************************)
AllRegistered == InsertUser(RegisteredUsers, "carol", Hash("p1")).users

InitCap ==
    /\ users = AllRegistered
    /\ rooms = {}
    /\ privateRooms = {}
    /\ req = EmptyBag
    /\ resp = [NoResp EXCEPT !.op = "login", !.status = 200,
                  !.body = Some([access_token |->
                                     Encode(AccountInfo(AllRegistered, 3), JWT_SECRET),
                                 token_type |-> "bearer"]),
                  !.cause = "ok", !.sub = Some(3)]     \* carol logged in last
    /\ issued = LoggedIn(AllRegistered)
    /\ regOK = [n \in Usernames |-> 1]
    /\ regFail = [n \in Usernames |-> 0]

NextCap ==
    \/ /\ BagCardinality(req) < MaxSeq
       /\ \E k \in TokenKinds, e \in issued : begin_request("create", None, k, e)
    \/ /\ BagCardinality(req) < MaxSeq
       /\ \E k \in TokenKinds, e \in issued, key \in ConnectKeys :
             begin_request("connect", Some(key), k, e)
    \/ \E q \in InFlight : load_user(q)
    \/ \E q \in InFlight : create_private_room_101(q)
    \/ \E q \in InFlight : create_private_room_102(q)
    \/ \E q \in InFlight : create_private_room_105(q)
    \/ \E q \in InFlight : connect_ro_private_room_83(q)
    \/ \E q \in InFlight : connect_ro_private_room_87(q)
    \/ \E q \in InFlight : connect_ro_private_room_89(q)
    \/ \E q \in InFlight : deliver(q)

SpecCap == InitCap /\ [][NextCap]_vars

(***************************************************************************)
(* Vocabulary of the properties                                            *)
(***************************************************************************)
UserIds == DOMAIN users

Connected(u) == users[u].connected_room # None

Caller(q) == q.current_user[1].id

\* in this step request q took a step of its handler and became n
Step(q, n) ==
    /\ q \in BagToSet(req) /\ n \in BagToSet(req') /\ q # n
    /\ req' = (req (-) SetToBag({q})) (+) SetToBag({n})

Succeeded(q) == q.pc = "done" /\ q.status = 200

Failed(q) == q.pc = "done" /\ q.status # 200

\* the step changed no row of another user
OthersUnchanged(u) ==
    /\ DOMAIN users' = DOMAIN users
    /\ \A o \in DOMAIN users \ {u} : users'[o] = users[o]

\* the step changed nothing of user u but the connected room
OnlyRoomChanged(u) ==
    /\ users'[u].username = users[u].username
    /\ users'[u].password_hash = users[u].password_hash

(***************************************************************************)
(* C1  Exclusivity (P2).  A user has at most one connected room, which is  *)
(* a Room of the store; a connected user stays connected; and when a       *)
(* handler reads a caller who is connected, the request ends there with    *)
(* 400 "Already connected" and the step changes nothing in the store, so   *)
(* only requests of unconnected callers ever get past the check.           *)
(***************************************************************************)
C1_Exclusivity ==
    /\ [](\A u \in UserIds : /\ Len(users[u].connected_room) <= 1
                             /\ Connected(u) => users[u].connected_room[1] \in rooms)
    /\ [](\A q \in InFlight :
             q.pc \in {"checked", "room", "private_room"}
                 => q.user[1].connected_room = None)
    /\ [][/\ \A u \in UserIds : Connected(u) => u \in DOMAIN users' /\ Connected(u)'
          /\ \A q \in BagToSet(req), n \in BagToSet(req') :
                (Step(q, n) /\ q.pc = "authed" /\ Connected(Caller(q)))
                    => /\ n.pc = "done" /\ n.status = 400
                       /\ n.detail = "Already connected"
                       /\ ~n.wrote
                       /\ store' = store]_vars

C1_Witness ==
    \E q \in InFlight :
        /\ q.pc = "done" /\ q.detail = "Already connected"
        /\ Connected(Caller(q))

(***************************************************************************)
(* C2  Per-user serialization.  Of the requests of one user that are in    *)
(* the server together, at most one succeeds, and a request that           *)
(* succeeded left its caller connected to the room it answered with.       *)
(***************************************************************************)
C2_PerUserSerialization ==
    \A q \in InFlight :
        Succeeded(q) =>
            /\ CopiesIn(q, req) = 1
            /\ \A n \in InFlight \ {q} :
                  Succeeded(n) => Caller(n) # Caller(q)
            /\ users[Caller(q)].connected_room = Some(q.body[1].room_id)

(***************************************************************************)
(* C3  No partial application.  A request that ended in a failure, and a   *)
(* request that can still fail, has changed nothing in the store; the      *)
(* PrivateRoom insertion never fails (422), so no Room is left behind by   *)
(* a failed create.                                                        *)
(***************************************************************************)
C3_NoPartialApplication ==
    \A q \in InFlight :
        /\ (Failed(q) \/ q.pc \in {"authed", "checked"}) => ~q.wrote
        /\ q.pc = "done" => q.status \in {200, 400, 500}
        /\ q.status = 400 => q.detail \in {"Already connected", "Invalid connect key"}

C3_Witness ==
    \E q \in InFlight :
        /\ Failed(q) /\ q.detail = "Invalid connect key"
        /\ rooms # {} /\ privateRooms # {}

(***************************************************************************)
(* C4  Key integrity (P3, I2).  No two PrivateRooms hold the same key; a   *)
(* PrivateRoom row never changes or disappears; its key is the decimal     *)
(* string of the id of the Room it was created with; and connect resolves  *)
(* a key to the row that holds exactly this key and to that row's Room.    *)
(***************************************************************************)
C4_KeyIntegrity ==
    /\ [](\A p1, p2 \in privateRooms :
             p1.connection_key = p2.connection_key => p1 = p2)
    /\ [](\A p \in privateRooms :
             p.room \in rooms /\ p.connection_key = Str(p.room))
    /\ [][/\ privateRooms \subseteq privateRooms'
          /\ \A q \in BagToSet(req), n \in BagToSet(req') :
                /\ (Step(q, n) /\ q.op = "create" /\ q.pc = "room")
                      => privateRooms' \ privateRooms
                            = {[room |-> q.room[1], connection_key |-> Str(q.room[1])]}
                /\ (Step(q, n) /\ q.op = "connect" /\ q.pc = "checked"
                                /\ n.pc = "private_room")
                      => /\ n.private_room[1] \in privateRooms
                         /\ n.private_room[1].connection_key = q.key[1]
                /\ (Step(q, n) /\ q.op = "connect" /\ q.pc = "private_room")
                      => n.room = Some(q.private_room[1].room)]_vars

C4_Witness ==
    /\ Cardinality(privateRooms) >= 2
    /\ \E q \in InFlight :
          /\ q.op = "connect" /\ q.pc = "room"
          /\ q.room # None /\ q.room[1] # Max(rooms)

(***************************************************************************)
(* C5  Username uniqueness (P1, I4).  No two users share a username; of    *)
(* the register calls made with one username exactly one was answered 201; *)
(* a register answered 400 changes no stored user.                         *)
(***************************************************************************)
C5_UsernameUnique ==
    /\ [](\A i, j \in UserIds : users[i].username = users[j].username => i = j)
    /\ [](\A n \in Usernames :
             /\ regOK[n] + regFail[n] > 0 => regOK[n] = 1
             /\ regOK[n] = Cardinality(UserByName(users, n)))
    /\ [][(resp'.op = "register" /\ resp'.status # 201)
             => /\ resp'.status = 400 /\ resp'.detail = "Username taken"
                /\ users' = users]_vars

C5_Witness ==
    /\ resp.op = "register" /\ resp.status = 400
    /\ \E n \in Usernames : regOK[n] = 1 /\ regFail[n] >= 1

(***************************************************************************)
(* C6  A request to whoami, create or connect whose token is truncated,    *)
(* tampered with, or names no stored user is answered 401.                 *)
(***************************************************************************)
BadTokenKinds == {"tampered", "truncated", "unknown"}

C6_Unauthenticated ==
    /\ (resp.op = "whoami" /\ resp.cause \in BadTokenKinds) => resp.status = 401
    /\ \A q \in InFlight :
          (q.pc = "done" /\ q.kind \in BadTokenKinds) => q.status = 401

(***************************************************************************)
(* C7  Token round-trip (P4).  The token a successful login returned       *)
(* verifies to the id and username of the user who logged in, and whoami   *)
(* with it answers 200 with exactly this AccountInfo.                      *)
(***************************************************************************)
C7_TokenRoundTrip ==
    /\ \A e \in issued :
          /\ e.uid \in UserIds /\ users[e.uid].username = e.username
          /\ get_current_user(e.token, users)
                = [status |-> 200, detail |-> "",
                   body |-> Some([id |-> e.uid, username |-> e.username])]
    /\ (resp.op = "whoami" /\ resp.cause = "valid")
          => /\ resp.status = 200
             /\ resp.body = Some([id |-> resp.sub[1],
                                  username |-> users[resp.sub[1]].username])

C7_Witness ==
    /\ resp.op = "whoami" /\ resp.cause = "valid" /\ resp.status = 200
    /\ resp.sub = Some(2) /\ Cardinality(issued) = 2

(***************************************************************************)
(* C8  Effect of create for an unconnected caller, step by step: the       *)
(* check passes; one Room with an unused id is added; one PrivateRoom      *)
(* bound to it with key str(id) is added; the caller's connected room is   *)
(* set to it and the answer is 200 {room_id, connect_key}; nothing else in *)
(* the store changes.                                                      *)
(***************************************************************************)
C8_CreateEffect ==
    [][\A q \in BagToSet(req), n \in BagToSet(req') :
          (Step(q, n) /\ q.op = "create") =>
             /\ (q.pc = "authed" /\ ~Connected(Caller(q)))
                   => n.pc = "checked" /\ store' = store
             /\ q.pc = "checked"
                   => /\ n.pc = "room" /\ n.room # None /\ n.room[1] \notin rooms
                      /\ rooms' = rooms \cup {n.room[1]}
                      /\ users' = users /\ privateRooms' = privateRooms
             /\ q.pc = "room"
                   => /\ n.pc = "private_room"
                      /\ n.private_room = Some([room |-> q.room[1],
                                                connection_key |-> Str(q.room[1])])
                      /\ n.private_room[1] \notin privateRooms
                      /\ privateRooms' = privateRooms \cup {n.private_room[1]}
                      /\ users' = users /\ rooms' = rooms
             /\ q.pc = "private_room"
                   => /\ Succeeded(n)
                      /\ n.body = Some([room_id |-> q.room[1],
                                        connect_key |-> Str(q.room[1])])
                      /\ users'[Caller(q)].connected_room = q.room
                      /\ OnlyRoomChanged(Caller(q)) /\ OthersUnchanged(Caller(q))
                      /\ rooms' = rooms /\ privateRooms' = privateRooms]_vars

C8_Witness ==
    \E q \in InFlight :
        /\ q.op = "create" /\ Succeeded(q)
        /\ q.body[1].room_id = 2
        /\ users[Caller(q)].connected_room = Some(2)

(***************************************************************************)
(* C9  Effect of connect for an unconnected caller, step by step: a key    *)
(* that some PrivateRoom holds resolves to that row, then to its Room; the *)
(* caller's connected room is set to that Room and the answer is 200 with  *)
(* the Room's id and the key; a key no PrivateRoom holds is answered 400   *)
(* "Invalid connect key"; no Room or PrivateRoom is created and no other   *)
(* user changes.                                                           *)
(***************************************************************************)
C9_ConnectEffect ==
    [][\A q \in BagToSet(req), n \in BagToSet(req') :
          (Step(q, n) /\ q.op = "connect") =>
             /\ rooms' = rooms /\ privateRooms' = privateRooms
             /\ (q.pc = "authed" /\ ~Connected(Caller(q)))
                   => n.pc = "checked" /\ n.key = q.key /\ users' = users
             /\ q.pc = "checked"
                   => /\ users' = users
                      /\ IF \E p \in privateRooms : p.connection_key = q.key[1]
                         THEN /\ n.pc = "private_room"
                              /\ n.private_room[1] \in privateRooms
                              /\ n.private_room[1].connection_key = q.key[1]
                         ELSE /\ n.pc = "done" /\ n.status = 400
                              /\ n.detail = "Invalid connect key"
             /\ q.pc = "private_room"
                   => /\ users' = users
                      /\ n.pc = "room" /\ n.private_room = q.private_room
                      /\ n.room = Some(q.private_room[1].room)
             /\ q.pc = "room"
                   => /\ Succeeded(n)
                      /\ n.body = Some([room_id |-> q.private_room[1].room,
                                        connect_key |-> q.private_room[1].connection_key])
                      /\ users'[Caller(q)].connected_room = Some(q.private_room[1].room)
                      /\ OnlyRoomChanged(Caller(q)) /\ OthersUnchanged(Caller(q))]_vars

C9_Witness ==
    /\ Cardinality(rooms) >= 2
    /\ \E q \in InFlight :
          /\ q.op = "connect" /\ Succeeded(q)
          /\ q.body[1] = [room_id |-> 1, connect_key |-> Str(1)]
          /\ users[Caller(q)].connected_room = Some(1)

(***************************************************************************)
(* C10  Login does not tell an unknown username from a wrong password:     *)
(* both are answered 400 "Incorrect password or username" with no token,   *)
(* a token is returned exactly when the username exists and the password   *)
(* verifies, and a failed login changes neither the store nor the tokens   *)
(* handed out.                                                             *)
(***************************************************************************)
C10_LoginNoLeak ==
    /\ [](resp.op = "login" =>
             /\ resp.cause \in {"absent", "mismatch"}
                   => /\ resp.status = 400
                      /\ resp.detail = "Incorrect password or username"
                      /\ resp.body = None
             /\ resp.cause = "ok"
                   => /\ resp.status = 200 /\ resp.body # None
                      /\ resp.body[1].token_type = "bearer"
             /\ resp.cause \in {"absent", "mismatch", "ok"})
    /\ [][resp'.op = "login"
             => /\ store' = store
                /\ resp'.status # 200 => issued' = issued]_vars

C10_Witness ==
    /\ resp.op = "login" /\ resp.cause = "mismatch" /\ resp.status = 400
    /\ issued # {}

(***************************************************************************)
(* C11  userInfo(username) answers 200 with {id, username} of the stored   *)
(* user when the username exists and 404 when it does not.                 *)
(***************************************************************************)
C11_UserInfo ==
    resp.op = "userinfo" =>
        /\ resp.cause = "found"
              => /\ resp.status = 200
                 /\ resp.body = Some(AccountInfo(users, resp.sub[1]))
        /\ resp.cause = "absent" => resp.status = 404 /\ resp.body = None

(***************************************************************************)
(* C12  Connected is absorbing: no step clears or retargets a connected    *)
(* room that is set.                                                       *)
(***************************************************************************)
C12_ConnectedAbsorbing ==
    [][\A u \in UserIds :
          Connected(u) => /\ u \in DOMAIN users'
                          /\ users'[u].connected_room = users[u].connected_room]_vars

(***************************************************************************)
(* C13  No occupancy cap.  A connect whose key some PrivateRoom holds      *)
(* resolves it, and its save succeeds however many users the Room already  *)
(* has: the caller becomes one more occupant of it; no connect is refused  *)
(* for any reason but the caller's own state, the key or the token.        *)
(***************************************************************************)
C13_NoOccupancyCap ==
    /\ [](\A q \in InFlight :
             (q.op = "connect" /\ Failed(q))
                 => \/ q.status = 400 /\ q.detail \in {"Already connected",
                                                       "Invalid connect key"}
                    \/ q.status = 500 /\ q.kind \in {"tampered", "truncated", "unknown"})
    /\ [][\A q \in BagToSet(req), n \in BagToSet(req') :
             (Step(q, n) /\ q.op = "connect") =>
                /\ (q.pc = "checked" /\ \E p \in privateRooms :
                                           p.connection_key = q.key[1])
                      => n.pc = "private_room"
                /\ q.pc = "room"
                      => /\ Succeeded(n) /\ q.room # None
                         /\ {u \in DOMAIN users' :
                                users'[u].connected_room = q.room}
                               = {u \in UserIds : users[u].connected_room = q.room}
                                    \cup {Caller(q)}]_vars

C13_Witness ==
    \E r \in rooms :
        Cardinality({u \in UserIds : users[u].connected_room = Some(r)}) >= 3

(***************************************************************************)
(* C14  Order of checks in connect: token, then the caller's connection,   *)
(* then the key.  A connect whose token is truncated, tampered with or     *)
(* names no stored user ends 401 whatever its key and whoever the caller;  *)
(* a connect of an authenticated caller who is connected ends 400          *)
(* "Already connected" at the check, whatever its key, so "Invalid connect *)
(* key" is only ever answered to a caller read as unconnected.             *)
(***************************************************************************)
C14_OrderOfChecks ==
    /\ [](\A q \in InFlight :
             (q.op = "connect" /\ q.kind \in BadTokenKinds)
                 => /\ q.pc = "done" /\ q.status = 401
                    /\ q.detail \notin {"Already connected", "Invalid connect key"})
    /\ [][\A q \in BagToSet(req), n \in BagToSet(req') :
             (Step(q, n) /\ q.op = "connect") =>
                /\ (q.pc = "authed" /\ Connected(Caller(q)))
                      => /\ Failed(n) /\ n.status = 400
                         /\ n.detail = "Already connected"
                /\ (Failed(n) /\ n.detail = "Invalid connect key")
                      => /\ q.pc = "checked" /\ q.user[1].connected_room = None
                         /\ \A p \in privateRooms : p.connection_key # q.key[1]]_vars

(***************************************************************************)
(* C15  Tokens are not revoked by state changes.  Every token a login      *)
(* issued verifies to the id and name of its user in every later state,    *)
(* no step of a create or connect handler changes what it verifies to, and *)
(* a request presenting it is authenticated as that user, also after the   *)
(* user's connected room has been set.                                     *)
(***************************************************************************)
C15_TokensStayValid ==
    /\ [](\A e \in issued :
             LET v == get_current_user(e.token, users)
             IN  /\ v.status = 200
                 /\ v.body[1].id = e.uid /\ v.body[1].username = e.username)
    /\ [](\A q \in InFlight :
             q.kind = "valid"
                 => /\ q.status \notin {401, 500}
                    /\ q.pc # "done" => \E e \in issued : Caller(q) = e.uid)
    /\ [][/\ issued \subseteq issued'
          /\ \A e \in issued :
                get_current_user(e.token, users') = get_current_user(e.token, users)]_vars

C15_Witness ==
    \E e \in issued :
        /\ Connected(e.uid)
        /\ get_current_user(e.token, users).status = 200
        /\ \E q \in InFlight :
              /\ q.kind = "valid" /\ q.pc = "authed" /\ Caller(q) = e.uid

(***************************************************************************)
(* C16  Room / PrivateRoom one-to-one (I3).  No two PrivateRooms reference *)
(* the same Room and every PrivateRoom references a Room of the store; a   *)
(* Room is only added by a create request, with an id no Room has, and a   *)
(* PrivateRoom is only added by the create request that holds the Room it  *)
(* added, bound to that Room, which no PrivateRoom referenced before.      *)
(***************************************************************************)
C16_OneToOne ==
    /\ [](\A p1, p2 \in privateRooms : p1.room = p2.room => p1 = p2)
    /\ [](\A p \in privateRooms : p.room \in rooms)
    /\ [](\A q \in InFlight :
             (q.op = "create" /\ q.pc = "room")
                 => /\ q.room # None /\ q.room[1] \in rooms
                    /\ \A p \in privateRooms : p.room # q.room[1]
                    /\ CopiesIn(q, req) = 1
                    /\ \A o \in InFlight \ {q} :
                          (o.op = "create" /\ o.pc = "room") => o.room # q.room)
    /\ [][/\ rooms' # rooms
                => \E q \in BagToSet(req), n \in BagToSet(req') :
                      /\ Step(q, n) /\ q.op = "create" /\ q.pc = "checked"
                      /\ n.pc = "room" /\ n.room[1] \notin rooms
                      /\ rooms' = rooms \cup {n.room[1]}
          /\ privateRooms' # privateRooms
                => \E q \in BagToSet(req), n \in BagToSet(req') :
                      /\ Step(q, n) /\ q.op = "create" /\ q.pc = "room"
                      /\ n.pc = "private_room"
                      /\ n.private_room[1].room = q.room[1]
                      /\ privateRooms' = privateRooms \cup {n.private_room[1]}]_vars

C16_Witness ==
    /\ Cardinality(rooms) = 2 /\ Cardinality(privateRooms) = 2
    /\ \E q \in InFlight : q.op = "create" /\ q.pc = "private_room"

(***************************************************************************)
(* C17  Referential integrity of membership.  In every state, between the  *)
(* steps of interleaved handlers too, a connected user's room is a Room of *)
(* the store that some PrivateRoom references; and a step that sets a      *)
(* user's connected room sets it to a Room that was stored, with its       *)
(* PrivateRoom, before the step.                                           *)
(***************************************************************************)
C17_MembershipIntegrity ==
    /\ [](\A u \in UserIds :
             Connected(u)
                 => /\ users[u].connected_room[1] \in rooms
                    /\ \E p \in privateRooms : p.room = users[u].connected_room[1])
    /\ [][\A u \in UserIds :
             (u \in DOMAIN users' /\ users'[u].connected_room # users[u].connected_room)
                 => /\ users'[u].connected_room # None
                    /\ users'[u].connected_room[1] \in rooms
                    /\ \E p \in privateRooms :
                          p.room = users'[u].connected_room[1]]_vars

C17_Witness ==
    /\ \E u \in UserIds : Connected(u)
    /\ \E q \in InFlight : q.op = "create" /\ q.pc = "room"
    /\ \E q \in InFlight : q.op = "connect" /\ q.pc = "room"

(***************************************************************************)
(* C18  Rooms are never empty at rest.  When no request is in the server,  *)
(* every Room of the store is the connected room of at least one user.     *)
(***************************************************************************)
C18_NoEmptyRoomAtRest ==
    req = EmptyBag
        => \A r \in rooms : \E u \in UserIds : users[u].connected_room = Some(r)
====
